---- MODULE Spec2Model ----
(***************************************************************************)
(* Session core of the FTP server: the command loop of a session, the      *)
(* one-shot passive data channel with its background task, and the pool    *)
(* of passive ports.                                                        *)
(***************************************************************************)
EXTENDS Integers, Sequences, FiniteSets, TLC

\* ------------------------------------------------------------------ bounds
NumSessions == 2
PoolSize == 1
MaxChans == 3
MaxChunks == 1
CmdChans == 1
OnePool == 2
NumCallers == 3
PoolPorts == 2
MaxSegs == 5
MaxDepth == 1
connectionTimeout == 1
MaxTime == 3

\* ------------------------------------------------------- program constants
minPASVPort == 10000
noMorePorts == -1
killChanCap == 100

Sessions == 1..NumSessions
Chans == 1..MaxChans
Callers == 1..NumCallers

VARIABLES
    ses,        \* the sessions recorded by the server
    dcs,        \* every data channel created so far
    nDC,        \* number of data channels created so far
    cAssigned,  \* paService.cAssigned, indexed by port
    free,       \* paService.free
    cert,       \* a TLS certificate is configured
    crashed,    \* a goroutine panicked: the process is gone
    callers,    \* goroutines that call the port assigner directly
    bound,      \* ports other processes of the host are listening on
    pth,        \* a path argument and what clearPath made of it
    fps,        \* the file provider of each session (a clone of the server's)
    disk,       \* the directories that exist below the home directory
    now,        \* the time, in units of the idle timeout's resolution
    login       \* what each session's last USER and PASS gave the authenticator

vars == <<ses, dcs, nDC, cAssigned, free, cert, crashed, callers, bound, pth, fps, disk, now, login>>

\* The mutable program state as one value, so that a handler is a function
\* from state to state and handlers compose the way their code calls nest.
World ==
    [ses |-> ses, dcs |-> dcs, nDC |-> nDC, cAssigned |-> cAssigned,
     free |-> free, crashed |-> crashed, bound |-> bound, now |-> now]

InstallServer(w) ==
    /\ ses' = w.ses
    /\ dcs' = w.dcs
    /\ nDC' = w.nDC
    /\ cAssigned' = w.cAssigned
    /\ free' = w.free
    /\ crashed' = w.crashed

Install(w) ==
    /\ InstallServer(w)
    /\ UNCHANGED <<cert, callers, bound, pth, fps, disk, now, login>>

\* ------------------------------------------------------------ command set
commands ==
    {"USER", "PASS", "PWD", "TYPE", "PASV", "EPSV", "LIST", "SYST", "CWD",
     "CDUP", "SIZE", "RETR", "STOR", "DELE", "FEAT", "QUIT", "NOOP", "MKD",
     "RMD", "REST", "NLST"}

Dispatched == commands \cup {"AUTH", "PROT"}

\* A verb the switch of Handle does not know.
Unknown == "XYZZY"

TransferCmds == {"LIST", "NLST", "RETR", "STOR"}

\* The arguments a client may send with a command; "" is a missing argument.
ArgsOf(c) ==
    CASE c = "USER" -> {"", "u"}
      [] c = "PASS" -> {"", "pw"}
      [] c = "TYPE" -> {"", "I", "E"}
      [] c = "AUTH" -> {"", "TLS", "SSL"}
      [] c = "PROT" -> {"", "P", "C", "E"}
      [] c = "REST" -> {"", "5", "%c"}
      [] c \in {"CWD", "SIZE", "RETR", "STOR", "DELE", "MKD", "RMD", "LIST", "NLST"}
           -> {"", "f"}
      [] OTHER -> {""}

\* The answers of the collaborators a command consults: the authenticator
\* (PASS), the file provider, getLocalIP (PASV). TRUE alone when none is asked.
OksOf(c) ==
    IF c \in {"PASS", "CWD", "CDUP", "SIZE", "MKD", "RMD", "DELE", "PASV",
              "LIST", "NLST", "RETR", "STOR"}
    THEN BOOLEAN ELSE {TRUE}

\* ------------------------------------------------------------ data shapes
\* The command the loop read last, with its argument: dc0 is what lastDataChanneler held when a
\* command that needs a data channel was read, ran says the handler was run,
\* out holds the statements the command loop wrote for it, handed is the
\* channel that took the command's routine, tls says the control stream was
\* the TLS one when the last of these statements was written.
NoCmd ==
    [cmd |-> "", arg |-> "", dc0 |-> "nil", ran |-> FALSE, out |-> <<>>,
     handed |-> 0, tls |-> FALSE]

NewSession ==
    [pc |-> "loop", conn |-> TRUE, secure |-> FALSE, username |-> "",
     authenticated |-> FALSE, lastDataChanneler |-> 0,
     dataChannelEncryption |-> FALSE, lastREST |-> 0, dc |-> 0,
     sinkRest |-> 0, lastReceivedCommand |-> 0, cur |-> NoCmd]

\* pc is the position of the channel's background task; closes counts the calls
\* of Close; fn and rest are the routine the task received from fncChan; out
\* holds the statements the routine wrote, bytes the chunks it moved, ioerr a failed Read or Write;
\* late says the routine wrote a statement after the session had read a command
\* later than the one that handed the routine over.
NoChannel ==
    [pc |-> "none", owner |-> 0, port |-> 0, listener |-> FALSE,
     connection |-> FALSE, secureConnection |-> FALSE,
     encrypted |-> FALSE, fncChan |-> FALSE, killChan |-> 0, closes |-> 0,
     fn |-> "", rest |-> 0, late |-> FALSE, out |-> <<>>,
     bytes |-> 0, ioerr |-> FALSE]

\* A goroutine that uses the port assigner: pc is where it stands ("assign" and
\* "release" while its closure waits in the serializer, "holding" once
\* AssignPort gave it a port), port and err are what its last AssignPort
\* returned.
NoCall == [pc |-> "idle", port |-> 0, err |-> FALSE]

\* The login of a session as its client drove it: user is the argument of the
\* most recent USER line, between says a command of the dispatch table other
\* than USER and PASS was processed since that line, asked says the last
\* command was a PASS that called the authenticator of a session that was not
\* authenticated, and given is the username that call passed.
NoLogin == [user |-> "", between |-> FALSE, asked |-> FALSE, given |-> ""]

Reply(code, txt) == [code |-> code, txt |-> txt, port |-> 0]

\* ------------------------------------------------------------ sendStatement
\* Write errors are logged and ignored, so the statement is recorded in every case.
sendStatement(w, s, r) ==
    [w EXCEPT !.ses[s].cur.out = Append(@, r),
              !.ses[s].cur.tls = w.ses[s].secure]

\* A statement written by the transfer routine running on channel d.
sendFromRoutine(w, d, r) ==
    [w EXCEPT !.dcs[d].out = Append(@, r),
              !.dcs[d].late = @ \/ w.ses[w.dcs[d].owner].cur.handed # d]

\* ---------------------------------------------------------------- port pool
\* net.Listen on port p succeeds iff no listener is bound on p.
Listenable(w, p) ==
    /\ p \notin w.bound
    /\ ~ \E d \in Chans : w.dcs[d].listener /\ w.dcs[d].port = p

SetMin(S) == CHOOSE x \in S : \A y \in S : x <= y

\* The slots AssignPort does not skip: not assigned, and the probing
\* net.Listen succeeds.
AssignablePorts(w) ==
    {p \in DOMAIN w.cAssigned : ~ w.cAssigned[p] /\ Listenable(w, p)}

\* Fault: AssignPort trusts its slots and does not probe the port.
AssignPortResultUnprobed(w) ==
    LET F == {p \in DOMAIN w.cAssigned : ~ w.cAssigned[p]}
    IN  IF F = {} THEN noMorePorts ELSE SetMin(F)

\* The port the serialized closure of AssignPort returns.
AssignPortResult(w) ==
    IF AssignablePorts(w) = {} THEN noMorePorts ELSE SetMin(AssignablePorts(w))

\* Fault: AssignPort returns the port and leaves its slot free.
AssignPortUnmarked(w) ==
    LET p == AssignPortResult(w) IN
    IF p = noMorePorts THEN w
    ELSE [w EXCEPT !.free = @ - 1]

AssignPort(w) ==
    LET p == AssignPortResult(w) IN
    IF p = noMorePorts THEN w
    ELSE [w EXCEPT !.cAssigned[p] = TRUE, !.free = @ - 1]

ReleasePort(w, p) ==
    [w EXCEPT !.cAssigned[p] = FALSE, !.free = @ + 1]

\* ------------------------------------------------------------ data channel
IsClosed(c) == c.port = 0

dcClose(w, d) ==
    LET c == w.dcs[d]
        w1 == [w EXCEPT !.dcs[d] =
                 [@ EXCEPT !.killChan = @ + 1,
                           !.closes = @ + 1,
                           !.secureConnection = FALSE,
                           !.connection = FALSE,
                           !.listener = FALSE]]
    IN  IF c.port # 0 THEN ReleasePort(w1, c.port) ELSE w1

\* datachannel.New, called for session s; the new channel is stored in
\* lastDataChanneler, which stays nil when no port could be assigned.
dcNew(w, s) ==
    LET p == AssignPortResult(w)
        d == w.nDC + 1
        w1 == AssignPort(w)
    IN  IF p = noMorePorts
        THEN [w EXCEPT !.ses[s].lastDataChanneler = 0]
        ELSE [w1 EXCEPT !.nDC = d,
                        !.dcs[d] = [NoChannel EXCEPT
                                      !.pc = "new", !.owner = s, !.port = p,
                                      !.encrypted = w.ses[s].dataChannelEncryption],
                        !.ses[s].lastDataChanneler = d]

\* Fault: the channel the session holds is dropped without being closed.
retrievePassivePortLeaks(w, s) ==
    dcNew([w EXCEPT !.ses[s].lastDataChanneler = 0], s)

retrievePassivePort(w, s) ==
    LET old == w.ses[s].lastDataChanneler
        w1 == IF old # 0
              THEN [dcClose(w, old) EXCEPT !.ses[s].lastDataChanneler = 0]
              ELSE w
    IN  dcNew(w1, s)

\* ------------------------------------------------------------ pipeline checks
\* Fault: requireAuth answers 530 and leaves the handler in place.
requireAuthKeepsHandler(w, s) ==
    IF ~ w.ses[s].cur.ran THEN w
    ELSE IF ~ w.ses[s].authenticated
         THEN sendStatement(w, s, Reply(530, "Please login with USER and PASS."))
         ELSE w

requireAuth(w, s) ==
    IF ~ w.ses[s].cur.ran THEN w
    ELSE IF ~ w.ses[s].authenticated
         THEN [sendStatement(w, s, Reply(530, "Please login with USER and PASS."))
                 EXCEPT !.ses[s].cur.ran = FALSE]
         ELSE w

requirePASV(w, s) ==
    IF ~ w.ses[s].cur.ran THEN w
    ELSE IF \/ w.ses[s].lastDataChanneler = 0
            \/ IsClosed(w.dcs[w.ses[s].lastDataChanneler])
         THEN [sendStatement(w, s, Reply(425, "Use PASV or EPSV first"))
                 EXCEPT !.ses[s].cur.ran = FALSE]
         ELSE w

resetREST(w, s) == [w EXCEPT !.ses[s].lastREST = 0]

\* Fault: resetUSER is skipped, like the handler, once a check has failed.
resetUSERSkipsRejected(w, s) ==
    IF ~ w.ses[s].cur.ran THEN w
    ELSE IF ~ w.ses[s].authenticated THEN [w EXCEPT !.ses[s].username = ""]
    ELSE w

resetUSER(w, s) ==
    IF ~ w.ses[s].authenticated THEN [w EXCEPT !.ses[s].username = ""] ELSE w

\* The checks chained onto newCmdList for each case of the switch, in order.
Pipeline(c) ==
    CASE c \in {"USER", "PASS"} -> <<"resetREST">>
      [] c \in {"PWD", "TYPE", "PASV", "EPSV", "CWD", "CDUP", "SIZE", "FEAT",
                "MKD", "RMD", "DELE", "PROT"}
           -> <<"requireAuth", "resetUSER", "resetREST">>
      [] c \in {"LIST", "REST", "NLST"}
           -> <<"requireAuth", "requirePASV", "resetUSER", "resetREST">>
      [] c \in {"SYST", "QUIT", "NOOP", "AUTH"} -> <<"resetUSER", "resetREST">>
      [] c = "RETR" -> <<"requireAuth", "resetUSER", "requirePASV">>
      [] c = "STOR" -> <<"requireAuth", "resetUSER", "resetREST", "requirePASV">>

ApplyCheck(w, s, k) ==
    CASE k = "requireAuth" -> requireAuth(w, s)
      [] k = "requirePASV" -> requirePASV(w, s)
      [] k = "resetREST" -> resetREST(w, s)
      [] k = "resetUSER" -> resetUSER(w, s)

RECURSIVE ApplyChecks(_, _, _)
ApplyChecks(w, s, ks) ==
    IF ks = <<>> THEN w
    ELSE ApplyChecks(ApplyCheck(w, s, Head(ks)), s, Tail(ks))

\* ---------------------------------------------------------------- handlers
\* A handler that only answers: one statement, nothing else changes.
Answer(w, s, code, txt) == sendStatement(w, s, Reply(code, txt))

\* An index out of range in a handler: the goroutine panics, the process dies.
Panic(w) == [w EXCEPT !.crashed = TRUE]

processUSER(w, s, arg) ==
    IF arg = "" THEN Answer(w, s, 501, "user needed!")
    ELSE Answer([w EXCEPT !.ses[s].username = arg], s, 331, "Password required")

\* Fault: a rejected PASS leaves the identity as it was.
processPASSKeepsIdentity(w, s, arg, ok) ==
    IF arg = "" THEN Answer(w, s, 501, "password needed!")
    ELSE IF ~ ok THEN Answer(w, s, 530, "Password Rejected")
         ELSE Answer([w EXCEPT !.ses[s].authenticated = TRUE], s, 230, "logged in")

\* ok is the authenticator's answer.
processPASS(w, s, arg, ok) ==
    IF arg = "" THEN Answer(w, s, 501, "password needed!")
    ELSE IF ~ ok
         THEN Answer([w EXCEPT !.ses[s].authenticated = FALSE,
                               !.ses[s].username = ""], s, 530, "Password Rejected")
         ELSE Answer([w EXCEPT !.ses[s].authenticated = TRUE], s, 230, "logged in")

processQUIT(w, s) ==
    [Answer(w, s, 221, "Goodbye.") EXCEPT !.ses[s].pc = "exited"]

\* ok is the file provider's answer.
processCWD(w, s, arg, ok) ==
    IF arg = "" THEN Answer(w, s, 550, "Failed to change directory")
    ELSE IF ~ ok THEN Answer(w, s, 550, "Failed to change directory")
         ELSE Answer(w, s, 250, "Directory successfully changed")

processTYPE(w, s, arg) ==
    IF arg = "" THEN Answer(w, s, 501, "type needed!")
    ELSE IF arg \notin {"I", "A"} THEN Answer(w, s, 504, "Type not supported")
         ELSE Answer(w, s, 200, "Type set")

processSIZE(w, s, arg, ok) ==
    IF arg = "" THEN Answer(w, s, 501, "object needed!")
    ELSE IF ~ ok THEN Answer(w, s, 550, "Could not get file")
         ELSE Answer(w, s, 213, "size")

processMKD(w, s, arg, ok) ==
    IF ~ ok THEN Answer(w, s, 550, "cannot create folder")
    ELSE Answer(w, s, 257, "directory created")

\* The error reply formats tokens[1], which a command with no argument lacks.
processRMD(w, s, arg, ok) ==
    IF ~ ok
    THEN IF arg = "" THEN Panic(w) ELSE Answer(w, s, 550, "cannot delete folder")
    ELSE Answer(w, s, 250, "folder deleted successfully")

processDELE(w, s, arg, ok) ==
    IF ~ ok
    THEN IF arg = "" THEN Panic(w) ELSE Answer(w, s, 550, "cannot delete file")
    ELSE Answer(w, s, 200, "file delete successfully")

\* fmt.Sscanf("%d", format, &lastREST): the text scanned is "%d" and the
\* client's argument is the format. Decimal digits in a format are literals
\* that the text does not start with, so a number is an error and stores
\* nothing; the format %c reads the first character of the text, the percent
\* sign, and stores its code.
SscanfPercentD(format) ==
    IF format = "%c" THEN [err |-> FALSE, stored |-> TRUE, value |-> 37]
    ELSE [err |-> TRUE, stored |-> FALSE, value |-> 0]

\* len(tokens) < 1 is never true here, so tokens[1] is read also when the
\* command has no argument.
processREST(w, s, arg) ==
    IF arg = "" THEN Panic(w)
    ELSE LET r == SscanfPercentD(arg)
             w1 == IF r.stored THEN [w EXCEPT !.ses[s].lastREST = r.value] ELSE w
         IN  IF r.err THEN Answer(w1, s, 550, "syntax error")
             ELSE Answer(w1, s, 350, "start position moved successfully")

\* Fault: the stream is switched before the 234 is written.
processAUTHSwitchesFirst(w, s, arg) ==
    IF ~ cert \/ w.ses[s].secure THEN Answer(w, s, 502, "not supported")
    ELSE IF arg = "" THEN Answer(w, s, 550, "must specify protocol!")
    ELSE IF arg # "TLS" THEN Answer(w, s, 503, "is not supported")
    ELSE Answer([w EXCEPT !.ses[s].secure = TRUE], s, 234,
                "Using authentication type TLS")

processAUTH(w, s, arg) ==
    IF ~ cert \/ w.ses[s].secure THEN Answer(w, s, 502, "not supported")
    ELSE IF arg = "" THEN Answer(w, s, 550, "must specify protocol!")
    ELSE IF arg # "TLS" THEN Answer(w, s, 503, "is not supported")
    ELSE [Answer(w, s, 234, "Using authentication type TLS")
            EXCEPT !.ses[s].secure = TRUE]

\* Fault: PROT does not reach the data channel that is already there.
SetEncryptedIgnored(w, s, b) == w

SetEncrypted(w, s, b) ==
    LET d == w.ses[s].lastDataChanneler IN
    IF d # 0 THEN [w EXCEPT !.dcs[d].encrypted = b] ELSE w

\* Fault: PROT does not ask for a secure control stream.
processPROTOnPlainStream(w, s, arg) ==
    IF arg = "" THEN Answer(w, s, 550, "must specify protection level!")
    ELSE IF arg = "P"
         THEN Answer(SetEncrypted([w EXCEPT !.ses[s].dataChannelEncryption = TRUE], s, TRUE),
                     s, 200, "data channel TLS encryption enabled")
    ELSE IF arg = "C"
         THEN Answer(SetEncrypted([w EXCEPT !.ses[s].dataChannelEncryption = FALSE], s, FALSE),
                     s, 200, "data channel TLS encryption disabled")
    ELSE Answer(w, s, 550, "is not supported")

processPROT(w, s, arg) ==
    IF ~ w.ses[s].secure THEN Answer(w, s, 502, "not supported")
    ELSE IF arg = "" THEN Answer(w, s, 550, "must specify protection level!")
    ELSE IF arg = "P"
         THEN Answer(SetEncrypted([w EXCEPT !.ses[s].dataChannelEncryption = TRUE], s, TRUE),
                     s, 200, "data channel TLS encryption enabled")
    ELSE IF arg = "C"
         THEN Answer(SetEncrypted([w EXCEPT !.ses[s].dataChannelEncryption = FALSE], s, FALSE),
                     s, 200, "data channel TLS encryption disabled")
    ELSE Answer(w, s, 550, "is not supported")

\* ok is getLocalIP's answer. After retrievePassivePort the handler goes on to
\* Open, a step of its own (OpenChannel).
processPASV(w, s, ok) ==
    IF ~ ok THEN Answer(w, s, 550, "Could not get local IP")
    ELSE LET w1 == retrievePassivePort(w, s) IN
         IF w1.ses[s].lastDataChanneler = 0
         THEN Answer(w1, s, 550, "Could not allocate passive port")
         ELSE [w1 EXCEPT !.ses[s].pc = "open"]

processEPSV(w, s) ==
    LET w1 == retrievePassivePort(w, s) IN
    IF w1.ses[s].lastDataChanneler = 0
    THEN Answer(w1, s, 550, "Could not allocate passive port")
    ELSE [w1 EXCEPT !.ses[s].pc = "open"]

\* dc := ses.lastDataChanneler; ses.lastDataChanneler = nil; dc.Sink(...): the
\* handler then blocks in Sink until the channel's task takes the routine.
Detach(w, s, rest) ==
    [w EXCEPT !.ses[s].dc = w.ses[s].lastDataChanneler,
              !.ses[s].lastDataChanneler = 0,
              !.ses[s].sinkRest = rest,
              !.ses[s].pc = "sink"]

\* ok is the file provider's answer (ChangeDirectory, List).
processLIST(w, s, arg, ok) ==
    IF ~ ok THEN Answer(w, s, 451, "cannot retrieve directory list")
    ELSE Detach(w, s, 0)

\* Fault: RETR uses the pending offset and leaves it in place.
processRETRKeepsOffset(w, s, arg, ok) ==
    IF arg = "" THEN Answer(w, s, 501, "object needed!")
    ELSE IF ~ ok THEN Answer(w, s, 550, "Could not get file")
    ELSE Detach(w, s, w.ses[s].lastREST)

processRETR(w, s, arg, ok) ==
    LET rest == w.ses[s].lastREST
        w1 == [w EXCEPT !.ses[s].lastREST = 0]
    IN  IF arg = "" THEN Answer(w1, s, 501, "object needed!")
        ELSE IF ~ ok THEN Answer(w1, s, 550, "Could not get file")
        ELSE Detach(w1, s, rest)

processSTOR(w, s, arg, ok) ==
    IF arg = "" THEN Answer(w, s, 501, "object needed!")
    ELSE IF ~ ok THEN Answer(w, s, 550, "Could not create file")
    ELSE Detach(w, s, 0)

\* cmd.pe(cmd.tokens)
RunHandler(w, s, c, arg, ok) ==
    CASE c = "USER" -> processUSER(w, s, arg)
      [] c = "PASS" -> processPASS(w, s, arg, ok)
      [] c = "SYST" -> Answer(w, s, 215, "UNIX Type: L8")
      [] c = "QUIT" -> processQUIT(w, s)
      [] c = "NOOP" -> Answer(w, s, 200, "NOOP ok.")
      [] c = "FEAT" -> Answer(w, s, 211, "End")
      [] c = "PWD" -> Answer(w, s, 257, "current directory")
      [] c = "CDUP" -> processCWD(w, s, "..", ok)
      [] c = "CWD" -> processCWD(w, s, arg, ok)
      [] c = "TYPE" -> processTYPE(w, s, arg)
      [] c = "SIZE" -> processSIZE(w, s, arg, ok)
      [] c = "MKD" -> processMKD(w, s, arg, ok)
      [] c = "RMD" -> processRMD(w, s, arg, ok)
      [] c = "DELE" -> processDELE(w, s, arg, ok)
      [] c = "REST" -> processREST(w, s, arg)
      [] c = "AUTH" -> processAUTH(w, s, arg)
      [] c = "PROT" -> processPROT(w, s, arg)
      [] c = "PASV" -> processPASV(w, s, ok)
      [] c = "EPSV" -> processEPSV(w, s)
      [] c \in {"LIST", "NLST"} -> processLIST(w, s, arg, ok)
      [] c = "RETR" -> processRETR(w, s, arg, ok)
      [] c = "STOR" -> processSTOR(w, s, arg, ok)

Execute(w, s, c, arg, ok) ==
    IF ~ w.ses[s].cur.ran THEN w ELSE RunHandler(w, s, c, arg, ok)

\* ------------------------------------------------------------ command loop
\* What requirePASV will find in lastDataChanneler: nothing, a channel on
\* which Close was called, one whose Open failed, or an open one.
ChannelState(w, s) ==
    LET d == w.ses[s].lastDataChanneler IN
    IF d = 0 THEN "nil"
    ELSE IF w.dcs[d].closes > 0 THEN "closed"
    ELSE IF ~ w.dcs[d].fncChan THEN "unopened"
    ELSE "open"

PasvCmds == {"LIST", "NLST", "RETR", "STOR", "REST"}

\* readCommand returned a line with the verb c and the argument arg.
ReadCommand(w, s, c, arg) ==
    [w EXCEPT !.ses[s].lastReceivedCommand = w.now,
              !.ses[s].cur =
                 [cmd |-> c,
                  arg |-> arg,
                  dc0 |-> IF c \in PasvCmds THEN ChannelState(w, s) ELSE "nil",
                  ran |-> c \in Dispatched,
                  out |-> <<>>,
                  handed |-> 0,
                  tls |-> w.ses[s].secure]]

\* Session.Close: conn.Close() closes the streams and clears them (IsSecure is
\* false from then on), then the channel the session still holds is closed.
sessionClose(w, s) ==
    LET d == w.ses[s].lastDataChanneler
        w1 == [w EXCEPT !.ses[s].conn = FALSE, !.ses[s].secure = FALSE,
                        !.ses[s].pc = "closed"]
    IN  IF d # 0 /\ ~ IsClosed(w.dcs[d]) THEN dcClose(w1, d) ELSE w1

\* One iteration of the loop of Handle: the switch on tokens[0]. When the
\* handler asks to terminate, Handle returns and the deferred releaseSession
\* closes the session.
Dispatch(w, s, c, arg, ok) ==
    LET w1 == IF c \in Dispatched
              THEN Execute(ApplyChecks(ReadCommand(w, s, c, arg), s, Pipeline(c)),
                           s, c, arg, ok)
              ELSE Answer(ReadCommand(w, s, c, arg), s, 502, "not implemented")
    IN  IF w1.ses[s].pc = "exited" THEN sessionClose(w1, s) ELSE w1

Handle(s, c, arg, ok) ==
    /\ ~ crashed
    /\ ses[s].pc = "loop"
    /\ c \in {"PASV", "EPSV"} => nDC < MaxChans
    /\ Install(Dispatch(World, s, c, arg, ok))

\* dataChannel.Open: the listener is bound and the background task started,
\* which blocks in Accept. ok is the system's answer to net.Listen on a port
\* no channel of this server is bound to.
dcOpen(w, d, ok) ==
    IF ok /\ Listenable(w, w.dcs[d].port)
    THEN [w EXCEPT !.dcs[d].listener = TRUE,
                   !.dcs[d].fncChan = TRUE,
                   !.dcs[d].pc = "accept"]
    ELSE w

PassiveReply(w, s) ==
    LET d == w.ses[s].lastDataChanneler IN
    IF w.ses[s].cur.cmd = "PASV"
    THEN [Reply(227, "Entering Passive Mode") EXCEPT !.port = w.dcs[d].port]
    ELSE [Reply(229, "Entering Extended Passive Mode") EXCEPT !.port = w.dcs[d].port]

\* Fault: the handler does not look at the error Open returns.
OpenAndReplyUnchecked(w, s, ok) ==
    LET w1 == dcOpen(w, w.ses[s].lastDataChanneler, ok)
    IN  [sendStatement(w1, s, PassiveReply(w1, s)) EXCEPT !.ses[s].pc = "loop"]

\* The rest of processPASV / processEPSV, from ses.lastDataChanneler.Open() on.
OpenAndReply(w, s, ok) ==
    LET d == w.ses[s].lastDataChanneler
        w1 == dcOpen(w, d, ok)
    IN  IF ~ w1.dcs[d].fncChan
        THEN [Answer(w1, s, 550, "Could not open passive port") EXCEPT !.ses[s].pc = "loop"]
        ELSE [sendStatement(w1, s, PassiveReply(w1, s)) EXCEPT !.ses[s].pc = "loop"]

OpenChannel(s, ok) ==
    /\ ~ crashed
    /\ ses[s].pc = "open"
    /\ Install(OpenAndReply(World, s, ok))

\* dc.fncChan <- f meets the receive in the task's select; the task wraps the
\* connection in TLS when the channel is encrypted, and returns at once when
\* it is encrypted and no certificate is configured.
TakeRoutine(w, s) ==
    LET d == w.ses[s].dc
        c == w.dcs[d]
        started == [c EXCEPT !.fn = w.ses[s].cur.cmd, !.rest = w.ses[s].sinkRest]
        ch == IF c.encrypted
              THEN IF ~ cert THEN [started EXCEPT !.pc = "defer"]
                   ELSE [started EXCEPT !.secureConnection = TRUE, !.pc = "run"]
              ELSE [started EXCEPT !.pc = "run"]
    IN  [w EXCEPT !.dcs[d] = ch,
                  !.ses[s].cur.handed = d,
                  !.ses[s].dc = 0, !.ses[s].sinkRest = 0, !.ses[s].pc = "loop"]

SinkHandoff(s) ==
    /\ ~ crashed
    /\ ses[s].pc = "sink"
    /\ dcs[ses[s].dc].fncChan
    /\ dcs[ses[s].dc].pc = "select"
    /\ Install(TakeRoutine(World, s))

\* readCommand fails (EOF or an I/O error): Handle returns and the deferred
\* releaseSession closes the session.
Disconnect(s) ==
    /\ ~ crashed
    /\ ses[s].pc = "loop"
    /\ Install(sessionClose(World, s))

\* ------------------------------------------------- the channel's background task
\* The client dials the advertised port: Accept returns the connection, which
\* is stored, and the listener is closed.
ClientConnect(d) ==
    /\ ~ crashed
    /\ dcs[d].pc = "accept"
    /\ dcs[d].listener
    /\ dcs' = [dcs EXCEPT ![d].connection = TRUE, ![d].listener = FALSE,
                          ![d].pc = "select"]
    /\ UNCHANGED <<ses, nDC, cAssigned, free, cert, crashed, callers, bound, pth, fps, disk, now, login>>

\* Accept returns an error because Close has closed the listener.
AcceptAborted(d) ==
    /\ ~ crashed
    /\ dcs[d].pc = "accept"
    /\ ~ dcs[d].listener
    /\ dcs' = [dcs EXCEPT ![d].pc = "defer"]
    /\ UNCHANGED <<ses, nDC, cAssigned, free, cert, crashed, callers, bound, pth, fps, disk, now, login>>

\* Accept returns an error of the system on a listener that is still open.
AcceptError(d) ==
    /\ ~ crashed
    /\ dcs[d].pc = "accept"
    /\ dcs[d].listener
    /\ dcs' = [dcs EXCEPT ![d].pc = "defer"]
    /\ UNCHANGED <<ses, nDC, cAssigned, free, cert, crashed, callers, bound, pth, fps, disk, now, login>>

\* case <-dc.killChan
TaskKilled(d) ==
    /\ ~ crashed
    /\ dcs[d].pc = "select"
    /\ dcs[d].killChan > 0
    /\ dcs' = [dcs EXCEPT ![d].killChan = @ - 1, ![d].pc = "defer"]
    /\ UNCHANGED <<ses, nDC, cAssigned, free, cert, crashed, callers, bound, pth, fps, disk, now, login>>

\* The task is over: what its routine wrote is no longer looked at.
Finished(c) ==
    [c EXCEPT !.pc = "done", !.rest = 0, !.late = FALSE, !.out = <<>>,
              !.bytes = 0, !.ioerr = FALSE]

\* defer func() { dc.Close() }() of the task
TaskEnd(w, d) ==
    LET w1 == dcClose(w, d) IN [w1 EXCEPT !.dcs[d] = Finished(w1.dcs[d])]

TaskDefer(d) ==
    /\ ~ crashed
    /\ dcs[d].pc = "defer"
    /\ dcs[d].killChan < killChanCap
    /\ Install(TaskEnd(World, d))

\* ------------------------------------- the task, statement by statement
\* The same goroutine at the granularity of its statements, which Close,
\* called by the session's goroutine, may interleave with: the fields of the
\* channel are read and written without synchronisation. pc is "accept" when
\* the goroutine starts, "checked" after if dc.listener == nil, "accepting"
\* inside Accept, "accepted" when Accept has returned a connection, and
\* "panic" when a method was called on the nil listener.
TaskNilCheck(d) ==
    /\ ~ crashed
    /\ dcs[d].pc = "accept"
    /\ dcs' = [dcs EXCEPT ![d].pc = IF dcs[d].listener THEN "checked" ELSE "defer"]
    /\ UNCHANGED <<ses, nDC, cAssigned, free, cert, crashed, callers, bound, pth, fps, disk, now, login>>

\* dc.listener.Accept() is called on what the field holds now.
TaskCallAccept(d) ==
    /\ ~ crashed
    /\ dcs[d].pc = "checked"
    /\ dcs' = [dcs EXCEPT ![d].pc = IF dcs[d].listener THEN "accepting" ELSE "panic"]
    /\ crashed' = ~ dcs[d].listener
    /\ UNCHANGED <<ses, nDC, cAssigned, free, cert, callers, bound, pth, fps, disk, now, login>>

\* Accept returns: the connection of a client that dialled the port, or an
\* error once Close has closed the listener.
TaskAcceptReturns(d) ==
    /\ ~ crashed
    /\ dcs[d].pc = "accepting"
    /\ dcs' = [dcs EXCEPT ![d].pc = IF dcs[d].listener THEN "accepted" ELSE "defer"]
    /\ UNCHANGED <<ses, nDC, cAssigned, free, cert, crashed, callers, bound, pth, fps, disk, now, login>>

\* dc.connection = conn; dc.listener.Close(); dc.listener = nil
TaskCloseListener(d) ==
    /\ ~ crashed
    /\ dcs[d].pc = "accepted"
    /\ dcs' = [dcs EXCEPT ![d].connection = TRUE,
                          ![d].listener = FALSE,
                          ![d].pc = IF dcs[d].listener THEN "select" ELSE "panic"]
    /\ crashed' = ~ dcs[d].listener
    /\ UNCHANGED <<ses, nDC, cAssigned, free, cert, callers, bound, pth, fps, disk, now, login>>

\* ------------------------------------------------------- the transfer routines
\* Fault: the task is a queue: after a routine it waits for the next one.
RoutineReturnLoops(w, d) ==
    [dcClose(w, d) EXCEPT !.dcs[d].pc = "select"]

\* The routine returns: its deferred dc.Close() runs, then the task's.
RoutineReturn(w, d) ==
    [dcClose(w, d) EXCEPT !.dcs[d].pc = "defer"]

\* The routine up to its 150: RETR and STOR first open the file (ok).
RoutineBegin(w, d, ok) ==
    IF w.dcs[d].fn \in {"RETR", "STOR"} /\ ~ ok
    THEN RoutineReturn(sendFromRoutine(w, d, Reply(550, "Could not get file")), d)
    ELSE [sendFromRoutine(w, d, Reply(150, "data connection")) EXCEPT !.dcs[d].pc = "data"]

\* One buffer is written to, or read from, the data connection.
RoutineChunk(w, d) ==
    [w EXCEPT !.dcs[d].bytes = @ + 1]

\* The last Write (LIST, NLST, RETR) or the Read that meets EOF (STOR) succeeded.
RoutineEnd(w, d) ==
    RoutineReturn(sendFromRoutine(w, d, Reply(226, "OK")), d)

\* Fault: the routine reports success after a failed Write or Read.
RoutineFailSaysOK(w, d) ==
    RoutineReturn(sendFromRoutine([w EXCEPT !.dcs[d].ioerr = TRUE], d, Reply(226, "OK")), d)

\* A Write or Read failed: LIST and NLST answer 550, RETR and STOR just return.
RoutineFail(w, d) ==
    LET w1 == [w EXCEPT !.dcs[d].ioerr = TRUE] IN
    IF w.dcs[d].fn \in {"LIST", "NLST"}
    THEN RoutineReturn(sendFromRoutine(w1, d, Reply(550, "Directory listing error")), d)
    ELSE RoutineReturn(w1, d)

XferBegin(d, ok) ==
    /\ ~ crashed
    /\ dcs[d].pc = "run"
    /\ Install(RoutineBegin(World, d, ok))

XferChunk(d) ==
    /\ ~ crashed
    /\ dcs[d].pc = "data"
    /\ dcs[d].connection
    /\ dcs[d].bytes < MaxChunks
    /\ Install(RoutineChunk(World, d))

XferEnd(d) ==
    /\ ~ crashed
    /\ dcs[d].pc = "data"
    /\ dcs[d].connection
    /\ Install(RoutineEnd(World, d))

XferFail(d) ==
    /\ ~ crashed
    /\ dcs[d].pc = "data"
    /\ Install(RoutineFail(World, d))

\* ------------------------------------------------------------ path cleaning
\* A string is held as what strings.Split(s, "/") makes of it: "/a/b" is
\* <<"", "a", "b">>, "/" is <<"", "">>, "a//b" is <<"a", "", "b">>. The
\* segments hold no '/', so Split and Join are inverse on this form.
Segs == {"a", "b", "..", ""}

\* The non-empty strings of at most MaxSegs segments.
Paths == (UNION {[1..n -> Segs] : n \in 1..MaxSegs}) \ {<<"">>}

BeginsWithSlash(s) == Len(s) >= 2 /\ s[1] = ""

\* First loop of splitAndClearPath: the items that are not empty.
NonEmptyItems(s) == SelectSeq(s, LAMBDA x : x # "")

\* Second loop of splitAndClearPath, from index i (counted from 1): an item
\* followed by ".." is skipped together with the "..", any other is kept.
RECURSIVE CollapseFrom(_, _)
CollapseFrom(toks, i) ==
    IF i >= Len(toks) THEN <<>>
    ELSE IF toks[i + 1] = ".." THEN CollapseFrom(toks, i + 2)
         ELSE <<toks[i]>> \o CollapseFrom(toks, i + 1)

\* Fault: the last item is appended also when it is "..".
splitAndClearPathKeepsLast(s) ==
    LET toks == NonEmptyItems(s)
        tmp == CollapseFrom(toks, 1)
    IN  IF Len(toks) > 0 THEN Append(tmp, toks[Len(toks)]) ELSE tmp

splitAndClearPath(s) ==
    LET toks == NonEmptyItems(s)
        tmp == CollapseFrom(toks, 1)
    IN  IF Len(toks) > 0 /\ toks[Len(toks)] # ".."
        THEN Append(tmp, toks[Len(toks)])
        ELSE tmp

clearPath(s) ==
    IF s = <<"..">> THEN s
    ELSE LET p == splitAndClearPath(s)
         IN  IF BeginsWithSlash(s)
             THEN (IF p = <<>> THEN <<"", "">> ELSE <<"">> \o p)
             ELSE IF p = <<>> THEN <<"", "">>
                  ELSE p

\* No path yet: pth.by names the handler that cleaned pth.s, toks is what
\* splitAndClearPath returned, once what clearPath returned and was given to
\* the file provider, twice what clearPath makes of that.
NoPath == [s |-> <<>>, by |-> "", toks |-> <<>>, once |-> <<>>, twice |-> <<>>]

PathFrame ==
    UNCHANGED <<ses, dcs, nDC, cAssigned, free, cert, crashed, callers, bound, fps, disk, now, login>>

\* processCWD, processSIZE or processRETR cleans its argument and hands the
\* result to the file provider.
CleanArgument(c) ==
    /\ pth.by = ""
    /\ pth' = [pth EXCEPT !.by = c,
                          !.toks = splitAndClearPath(pth.s),
                          !.once = clearPath(pth.s)]
    /\ PathFrame

\* The cleaned path comes back as the argument of a later command.
CleanAgain ==
    /\ pth.by # ""
    /\ pth.twice = <<>>
    /\ pth' = [pth EXCEPT !.twice = clearPath(pth.once)]
    /\ PathFrame

\* ------------------------------------------------------------ file provider
\* A directory is the sequence of names that leads to it from the home
\* directory; <<>> is the home directory.
\* physicalFS.Clone of the server's provider, which stays at the home
\* directory. soloDir and soloDisk are history: the directory and the disk the
\* session would have were it the only session of the server.
Clone(dsk) == [dir |-> <<>>, soloDir |-> <<>>, soloDisk |-> dsk]

\* The argument of a command as a path, in the form strings.Split gives.
PathOf(arg) ==
    CASE arg = "a" -> <<"a">>
      [] arg = ".." -> <<"..">>
      [] arg = "/" -> <<"", "">>
      [] arg = "/a" -> <<"", "a">>

\* filepath.Join(base, p): p is appended and the result cleaned lexically.
RECURSIVE filepathJoin(_, _)
filepathJoin(base, p) ==
    IF p = <<>> THEN base
    ELSE LET h == Head(p)
         IN  filepathJoin(IF h = "" THEN base
                          ELSE IF h = ".."
                               THEN (IF base = <<>> THEN base
                                     ELSE SubSeq(base, 1, Len(base) - 1))
                               ELSE Append(base, h),
                          Tail(p))

\* physicalFS.ChangeDirectory from directory dir on a disk with the
\* directories dsk: the error of os.Stat, and the directory afterwards.
ChangeDirectory(dir, path, dsk) ==
    IF dir = <<>> /\ path = <<"..">> THEN [err |-> FALSE, dir |-> dir]
    ELSE LET tmpDir == IF BeginsWithSlash(path)
                       THEN filepathJoin(<<>>, path)
                       ELSE filepathJoin(dir, path)
         IN  IF tmpDir = <<>> \/ tmpDir \in dsk
             THEN [err |-> FALSE, dir |-> tmpDir]
             ELSE [err |-> TRUE, dir |-> dir]

\* os.Remove of directory d succeeds when d exists and is empty.
Removable(d, dsk) ==
    /\ d \in dsk
    /\ ~ \E e \in dsk : Len(e) > Len(d) /\ SubSeq(e, 1, Len(d)) = d

\* os.MkdirAll: d and the directories above it exist afterwards.
MkdirAll(d, dsk) == dsk \cup {SubSeq(d, 1, n) : n \in 1..Len(d)}

\* Fault: the sessions use the server's provider itself, not clones of it.
SetDirectoryShared(f, s, d) == [t \in Sessions |-> [f[t] EXCEPT !.dir = d]]

\* pfs.currentRealDirectory = tmpDir, on the provider of session s.
SetDirectory(f, s, d) == [f EXCEPT ![s].dir = d]

\* What the file provider of session s answers to command c with argument
\* arg: the error, the provider's directory and the disk afterwards.
ProviderCall(c, arg, dir, dsk) ==
    CASE c \in {"CWD", "CDUP"} ->
            LET r == ChangeDirectory(dir,
                         clearPath(IF c = "CDUP" THEN <<"..">> ELSE PathOf(arg)),
                         dsk)
            IN  [err |-> r.err, dir |-> r.dir, disk |-> dsk]
      [] c = "MKD" ->
            [err |-> FALSE, dir |-> dir,
             disk |-> MkdirAll(filepathJoin(dir, PathOf(arg)), dsk)]
      [] c = "RMD" ->
            LET d == filepathJoin(dir, PathOf(arg))
            IN  IF Removable(d, dsk)
                THEN [err |-> FALSE, dir |-> dir, disk |-> dsk \ {d}]
                ELSE [err |-> TRUE, dir |-> dir, disk |-> dsk]
      [] OTHER -> [err |-> FALSE, dir |-> dir, disk |-> dsk]

\* The command lines of the directory commands.
DirLines ==
    {<<"PASS", "pw">>, <<"PWD", "">>, <<"CDUP", "">>, <<"MKD", "a">>,
     <<"RMD", "a">>} \cup {<<"CWD", a>> : a \in {"a", "..", "/", "/a"}}

\* Session.Handle on a directory command, with the answers of the session's
\* file provider on the disk all sessions share.
DirHandle(s, c, arg) ==
    LET r == ProviderCall(c, arg, fps[s].dir, disk)
        solo == ProviderCall(c, arg, fps[s].soloDir, fps[s].soloDisk)
        w == Dispatch(World, s, c, arg, ~ r.err)
        ran == w.ses[s].cur.ran /\ c # "PASS"
    IN  /\ ~ crashed
        /\ ses[s].pc = "loop"
        /\ c = "MKD" => Len(fps[s].dir) < MaxDepth /\ Len(fps[s].soloDir) < MaxDepth
        /\ InstallServer(w)
        /\ disk' = IF ran THEN r.disk ELSE disk
        /\ fps' = IF ran
                  THEN [SetDirectory(fps, s, r.dir) EXCEPT
                          ![s].soloDir = solo.dir, ![s].soloDisk = solo.disk]
                  ELSE fps
        /\ UNCHANGED <<cert, callers, bound, pth, now, login>>

\* The file provider part of processLIST / processNLST from directory dir:
\* lastCWD is remembered, the directory is changed to the argument when there
\* is one, List is called (ok is its answer), and ChangeDirectory(lastCWD)
\* follows only when List succeeded. The error and the directory afterwards.
ListDirectory(arg, dir, dsk, ok) ==
    LET lastCWD == IF dir = <<>> THEN <<"", "">> ELSE <<"">> \o dir
        r == IF arg = "" THEN [err |-> FALSE, dir |-> dir]
             ELSE ChangeDirectory(dir, PathOf(arg), dsk)
    IN  IF r.err \/ ~ ok THEN [err |-> TRUE, dir |-> r.dir]
        ELSE IF arg = "" THEN r
        ELSE ChangeDirectory(r.dir, lastCWD, dsk)

\* The command lines of LIST and NLST.
ListLines == {"LIST", "NLST"} \X {"", "a", ".."}

\* Session.Handle on LIST or NLST, with the answers of the session's file
\* provider.
ListHandle(s, c, arg, ok) ==
    LET r == ListDirectory(arg, fps[s].dir, disk, ok)
        w == Dispatch(World, s, c, arg, ~ r.err)
    IN  /\ ~ crashed
        /\ ses[s].pc = "loop"
        /\ InstallServer(w)
        /\ fps' = IF w.ses[s].cur.ran THEN SetDirectory(fps, s, r.dir) ELSE fps
        /\ UNCHANGED <<cert, callers, bound, pth, disk, now, login>>

\* The command lines of a login, with commands of each pipeline around them.
LoginLines ==
    {<<"USER", "u">>, <<"USER", "">>, <<"PASS", "pw">>, <<"PASS", "">>,
     <<"NOOP", "">>, <<"SYST", "">>, <<"AUTH", "TLS">>, <<"PWD", "">>,
     <<Unknown, "">>}

\* Session.Handle on a line of a login; ok is the authenticator's answer to
\* authFunc(ses.id.Username(), password).
LoginHandle(s, c, arg, ok) ==
    /\ ~ crashed
    /\ ses[s].pc = "loop"
    /\ InstallServer(Dispatch(World, s, c, arg, ok))
    /\ UNCHANGED <<cert, callers, bound, pth, fps, disk, now>>
    /\ login' = [login EXCEPT ![s] =
          [user |-> IF c = "USER" THEN arg ELSE @.user,
           between |-> IF c = "USER" THEN FALSE
                       ELSE @.between \/ c \in Dispatched \ {"PASS"},
           asked |-> c = "PASS" /\ arg # "" /\ ~ ses[s].authenticated,
           given |-> IF c = "PASS" /\ arg # "" /\ ~ ses[s].authenticated
                     THEN ses[s].username ELSE ""]]

\* --------------------------------------------------------------------- time
\* Time passes, up to the horizon MaxTime.
Tick ==
    /\ now < MaxTime
    /\ now' = now + 1
    /\ UNCHANGED <<ses, dcs, nDC, cAssigned, free, cert, crashed, callers, bound, pth, fps, disk, login>>

\* ------------------------------------------------- callers of the port pool
\* pa.AssignPort() is called: the closure is handed to the serializer.
CallAssignPort(k) ==
    /\ callers[k].pc = "idle"
    /\ callers' = [callers EXCEPT ![k].pc = "assign"]
    /\ UNCHANGED <<ses, dcs, nDC, cAssigned, free, cert, crashed, bound, pth, fps, disk, now, login>>

\* The serializer runs the closure of AssignPort, one closure at a time, and
\* the caller gets the port, or noMorePorts and an error.
RunAssignPort(k) ==
    /\ callers[k].pc = "assign"
    /\ LET p == AssignPortResult(World)
           w == AssignPort(World)
       IN  /\ cAssigned' = w.cAssigned
           /\ free' = w.free
           /\ callers' = [callers EXCEPT ![k] =
                            [pc |-> IF p = noMorePorts THEN "idle" ELSE "holding",
                             port |-> p,
                             err |-> p = noMorePorts]]
    /\ UNCHANGED <<ses, dcs, nDC, cert, crashed, bound, pth, fps, disk, now, login>>

\* pa.ReleasePort(port) is called with the port the caller was given.
CallReleasePort(k) ==
    /\ callers[k].pc = "holding"
    /\ callers' = [callers EXCEPT ![k].pc = "release"]
    /\ UNCHANGED <<ses, dcs, nDC, cAssigned, free, cert, crashed, bound, pth, fps, disk, now, login>>

\* The serializer runs the closure of ReleasePort.
RunReleasePort(k) ==
    /\ callers[k].pc = "release"
    /\ LET w == ReleasePort(World, callers[k].port)
       IN  /\ cAssigned' = w.cAssigned
           /\ free' = w.free
    /\ callers' = [callers EXCEPT ![k].pc = "idle"]
    /\ UNCHANGED <<ses, dcs, nDC, cert, crashed, bound, pth, fps, disk, now, login>>

\* Another process of the host starts or stops listening on port p, which
\* decides the net.Listen of the probe in AssignPort.
BindOther(p) ==
    /\ p \notin bound
    /\ bound' = bound \cup {p}
    /\ UNCHANGED <<ses, dcs, nDC, cAssigned, free, cert, crashed, callers, pth, fps, disk, now, login>>

UnbindOther(p) ==
    /\ p \in bound
    /\ bound' = bound \ {p}
    /\ UNCHANGED <<ses, dcs, nDC, cAssigned, free, cert, crashed, callers, pth, fps, disk, now, login>>

\* ------------------------------------------------------------ specifications
\* portassigner.New(minPASVPort, maxPASVPort)
paNew(lo, hi) ==
    [cAssigned |-> [p \in lo..(hi - 1) |-> FALSE], free |-> hi - lo]

\* The server after construction with a pool of n ports, its sessions connected.
InitState(n) ==
    /\ ses = [s \in Sessions |-> NewSession]
    /\ dcs = [d \in Chans |-> NoChannel]
    /\ nDC = 0
    /\ cAssigned = paNew(minPASVPort, minPASVPort + n).cAssigned
    /\ free = paNew(minPASVPort, minPASVPort + n).free
    /\ crashed = FALSE
    /\ callers = [k \in Callers |-> NoCall]
    /\ bound = {}
    /\ fps = [s \in Sessions |-> Clone(disk)]
    /\ now = 0
    /\ login = [s \in Sessions |-> NoLogin]

DataCmds == {"PASS", "PASV", "EPSV", "RETR"}

OneCmds == {"PASS", "PASV", "EPSV", "LIST", "RETR"}

DataArg(c) == IF c = "PASS" THEN "pw" ELSE IF c = "RETR" THEN "f" ELSE ""

AllCmds == Dispatched \cup {Unknown}

\* The steps of a channel's task up to the handover, and its end.
TaskStep(d) ==
    \/ ClientConnect(d)
    \/ AcceptAborted(d)
    \/ TaskKilled(d)
    \/ TaskDefer(d)

\* The steps of a routine that runs on the task.
RoutineStep(d) ==
    \/ \E ok \in BOOLEAN : XferBegin(d, ok)
    \/ XferEnd(d)
    \/ XferFail(d)

\* A server without certificate (NewPlain(..., nil, ...)).
Init == disk = {} /\ InitState(PoolSize) /\ cert = FALSE /\ pth = NoPath

\* Every session, with the well-formed commands of the passive data path
\* accepted by their collaborators, on a system whose Listen and Accept fail
\* only for what the server itself did; the data connection may fail.
Next ==
    \/ \E s \in Sessions :
        \/ \E c \in DataCmds : Handle(s, c, DataArg(c), TRUE)
        \/ OpenChannel(s, TRUE)
        \/ SinkHandoff(s)
        \/ Disconnect(s)
    \/ \E d \in Chans : TaskStep(d) \/ RoutineStep(d)

Spec == Init /\ [][Next]_vars

InitOne == disk = {} /\ InitState(OnePool) /\ cert = FALSE /\ pth = NoPath

\* One session on the passive data path, on a system whose Listen may fail.
NextOne ==
    \/ \E c \in OneCmds : Handle(1, c, DataArg(c), TRUE)
    \/ \E ok \in BOOLEAN : OpenChannel(1, ok)
    \/ SinkHandoff(1)
    \/ Disconnect(1)
    \/ \E d \in Chans : TaskStep(d) \/ RoutineStep(d)

SpecOne == InitOne /\ [][NextOne]_vars

InitCmd == disk = {} /\ InitState(PoolSize) /\ cert \in BOOLEAN /\ pth = NoPath

\* One session, with every command line the loop can read, on a system whose
\* Listen and Accept may fail.
NextCmd ==
    \/ \E c \in AllCmds : \E arg \in ArgsOf(c) : \E ok \in OksOf(c) :
          /\ c \in {"PASV", "EPSV"} => nDC < CmdChans
          /\ Handle(1, c, arg, ok)
    \/ \E ok \in BOOLEAN : OpenChannel(1, ok)
    \/ SinkHandoff(1)
    \/ Disconnect(1)
    \/ \E d \in Chans : TaskStep(d) \/ AcceptError(d) \/ RoutineStep(d) \/ XferChunk(d)

SpecCmd == InitCmd /\ [][NextCmd]_vars

InitPool == disk = {} /\ InitState(PoolPorts) /\ cert = FALSE /\ pth = NoPath

\* The port assigner alone, used by concurrent goroutines on a host where other
\* processes bind and free ports of the range.
NextPool ==
    \/ \E k \in Callers :
        \/ CallAssignPort(k)
        \/ RunAssignPort(k)
        \/ CallReleasePort(k)
        \/ RunReleasePort(k)
    \/ \E p \in DOMAIN cAssigned : BindOther(p) \/ UnbindOther(p)

SpecPool == InitPool /\ [][NextPool]_vars

\* One session alone on a server whose pool has PoolSize ports.
SpecSolo == Init /\ [][NextOne]_vars

\* clearPath alone, on every path of the bounded alphabet.
InitPath ==
    /\ disk = {}
    /\ InitState(PoolSize)
    /\ cert = FALSE
    /\ \E s \in Paths : pth = [NoPath EXCEPT !.s = s]

NextPath ==
    \/ \E c \in {"CWD", "SIZE", "RETR"} : CleanArgument(c)
    \/ CleanAgain

SpecPath == InitPath /\ [][NextPath]_vars

\* Every session on the directory commands, over one disk.
InitDir ==
    /\ disk \in {{}, {<<"a">>}}
    /\ InitState(PoolSize)
    /\ cert = FALSE
    /\ pth = NoPath

NextDir == \E s \in Sessions : \E l \in DirLines : DirHandle(s, l[1], l[2])

SpecDir == InitDir /\ [][NextDir]_vars

\* One session that lists directories over a passive data channel and moves
\* between the home directory and its subdirectory.
NextList ==
    \/ Handle(1, "PASS", "pw", TRUE)
    \/ nDC < CmdChans /\ Handle(1, "PASV", "", TRUE)
    \/ OpenChannel(1, TRUE)
    \/ \E l \in ListLines : \E ok \in BOOLEAN : ListHandle(1, l[1], l[2], ok)
    \/ \E a \in {"a", "/"} : DirHandle(1, "CWD", a)
    \/ SinkHandoff(1)
    \/ Disconnect(1)
    \/ \E d \in Chans : TaskStep(d) \/ RoutineStep(d)

SpecList == InitDir /\ [][NextList]_vars

\* One session logging in, on a server with or without certificate.
NextLogin ==
    \/ \E l \in LoginLines : \E ok \in OksOf(l[1]) : LoginHandle(1, l[1], l[2], ok)
    \/ Disconnect(1)

SpecLogin == InitCmd /\ [][NextLogin]_vars

\* The goroutines of the server are scheduled: a handler that can go on does,
\* and so do the task of every channel and the routine it runs. The client is
\* bound to one thing only: it drops the control connection in the end, which
\* the session sees whenever its loop is reading.
SpecListFair ==
    /\ SpecList
    /\ SF_vars(Disconnect(1))
    /\ WF_vars(OpenChannel(1, TRUE))
    /\ WF_vars(SinkHandoff(1))
    /\ \A d \in Chans :
          /\ WF_vars(AcceptAborted(d) \/ TaskKilled(d) \/ TaskDefer(d))
          /\ WF_vars(RoutineStep(d))

\* One session that asks for passive ports and leaves, with the tasks of its
\* channels interleaved statement by statement.
NextRace ==
    \/ \E c \in {"PASS", "PASV", "EPSV"} : Handle(1, c, DataArg(c), TRUE)
    \/ OpenChannel(1, TRUE)
    \/ Disconnect(1)
    \/ \E d \in Chans :
          \/ TaskNilCheck(d)
          \/ TaskCallAccept(d)
          \/ TaskAcceptReturns(d)
          \/ TaskCloseListener(d)
          \/ TaskKilled(d)
          \/ TaskDefer(d)

SpecRace == Init /\ [][NextRace]_vars

\* Every session on commands of the control connection alone, with clients
\* that may fall silent, while time passes. The server has no step of its own
\* here: a handler of these commands runs to its end within Handle.
NextIdle ==
    \/ Tick
    \/ \E s \in Sessions :
        \/ \E c \in {"PASS", "NOOP", "QUIT"} : Handle(s, c, DataArg(c), TRUE)
        \/ Disconnect(s)

SpecIdle == Init /\ [][NextIdle]_vars

\* Time does pass; the clients are not bound to do anything.
SpecIdleFair == SpecIdle /\ WF_vars(Tick)

\* ------------------------------------------------------------------ properties
\* The commands the specification lets an unauthenticated session use.
AuthExempt == {"USER", "PASS", "QUIT", "NOOP", "SYST", "FEAT", "AUTH"}

\* C1: while a session is not authenticated, a command of the dispatch table
\* other than USER, PASS, QUIT, NOOP, SYST, FEAT and AUTH does not run its
\* handler and is answered by exactly one statement, 530 Please login with
\* USER and PASS.; no other check of the pipeline adds a second one.
C1_LoginRequired ==
    \A s \in Sessions :
        (ses[s].cur.cmd \in Dispatched \ AuthExempt /\ ~ ses[s].authenticated)
        => /\ ~ ses[s].cur.ran
           /\ ses[s].cur.out = <<Reply(530, "Please login with USER and PASS.")>>

\* C1 happens: LIST, which also carries the passive check, read from a session
\* that is not authenticated and holds no data channel, got its 530.
C1_Witness ==
    /\ ses[1].cur.cmd = "LIST"
    /\ ~ ses[1].authenticated
    /\ ses[1].cur.dc0 = "nil"
    /\ Len(ses[1].cur.out) = 1
    /\ ses[1].cur.out[1].code = 530

\* C2: an authenticated LIST, NLST, RETR, STOR or REST read while the session
\* holds no data channel, or one on which Close was already called, is answered
\* 425 Use PASV or EPSV first and its handler does not run.
C2_PassiveRequired ==
    \A s \in Sessions :
        (/\ ses[s].cur.cmd \in PasvCmds
         /\ ses[s].authenticated
         /\ ses[s].cur.dc0 \in {"nil", "closed"})
        => /\ ~ ses[s].cur.ran
           /\ ses[s].cur.out = <<Reply(425, "Use PASV or EPSV first")>>

\* A channel that was created and on which Close has not been called: it
\* holds its port, and its listener or connection may be open.
NotClosed(d) == dcs[d].pc # "none" /\ dcs[d].closes = 0

\* C3: across all sessions sharing the pool, under every interleaving of
\* PASV/EPSV, transfer commands, client connections, session closes and the
\* channels' tasks, no two data channels that are created and not yet closed
\* hold the same port number at the same time.
C3_PortsDistinct ==
    \A d1 \in Chans : \A d2 \in Chans :
        (d1 # d2 /\ NotClosed(d1) /\ NotClosed(d2))
        => dcs[d1].port # dcs[d2].port

\* Session s has handed a routine to one of its channels.
HandedOver(s) == \E d \in Chans : dcs[d].owner = s /\ dcs[d].fn # ""

\* C4: a data channel carries at most one transfer: once a transfer command has
\* handed its routine to the channel, the session no longer references that
\* channel, and a later LIST, NLST, RETR or STOR is answered 425, its handler
\* not run, unless a PASV or EPSV has succeeded in between, that is unless the
\* session then holds a channel that was opened.
C4_OneTransferPerChannel ==
    \A s \in Sessions :
        HandedOver(s)
        => /\ \A d \in Chans :
                (dcs[d].owner = s /\ dcs[d].fn # "") => ses[s].lastDataChanneler # d
           /\ (/\ ses[s].cur.cmd \in TransferCmds
               /\ ses[s].authenticated
               /\ ses[s].cur.dc0 \in {"nil", "unopened"})
              => /\ ~ ses[s].cur.ran
                 /\ ses[s].cur.out = <<Reply(425, "Use PASV or EPSV first")>>

\* C5: in every reachable state, at most one data channel created by a session
\* is not closed, also while a transfer still runs on one channel and the
\* session processes the next PASV or EPSV.
C5_OneOpenChannel ==
    \A s \in Sessions :
        Cardinality({d \in Chans : dcs[d].owner = s /\ NotClosed(d)}) <= 1

\* C6: within a session, every reply that belongs to command N, the 150 and
\* 226/550 of a transfer included, is written before command N+1 is read: no
\* routine writes a statement after its session has read a later command.
C6_RepliesBeforeNextRead ==
    \A d \in Chans : ~ dcs[d].late

\* C9: once Session.Close has returned, the control stream is closed and every
\* channel the session created is closed (no listener, no connection) with its
\* port given back, also when a transfer was in progress.
C9_CloseReleasesAll ==
    \A s \in Sessions :
        ses[s].pc = "closed"
        => /\ ~ ses[s].conn
           /\ \A d \in Chans :
                dcs[d].owner = s
                => /\ ~ dcs[d].listener
                   /\ ~ dcs[d].connection
                   /\ ~ dcs[d].secureConnection
                   /\ dcs[d].closes > 0

\* C7: for LIST, NLST, RETR and STOR the 150 is written before the first byte
\* moves on the data connection, the 226 only after the last one (the routine
\* moves nothing once it wrote 226), and a transfer whose Write or Read failed
\* never writes 226.
C7_TransferReplyOrder ==
    \A d \in Chans :
        LET o == dcs[d].out IN
        /\ dcs[d].bytes > 0 => (Len(o) >= 1 /\ o[1].code = 150)
        /\ (\E i \in 1..Len(o) : o[i].code = 226)
           => /\ ~ dcs[d].ioerr
              /\ Len(o) = 2 /\ o[1].code = 150 /\ o[2].code = 226
              /\ dcs[d].pc \notin {"run", "data"}

\* C7 happens: a STOR moved data and completed, 150 then 226.
C7_Witness ==
    \E d \in Chans :
        /\ dcs[d].fn = "STOR"
        /\ dcs[d].bytes > 0
        /\ Len(dcs[d].out) = 2
        /\ dcs[d].out[2].code = 226

\* C8: a 227 (PASV) or 229 (EPSV) is written only when the channel's listener
\* was bound on the advertised port, and it is the command's only reply; when
\* the bind failed the command's only reply is a 550.
C8_ReplyAfterBind ==
    \A s \in Sessions :
        LET o == ses[s].cur.out
            d == ses[s].lastDataChanneler
        IN  /\ \A i \in 1..Len(o) :
                 o[i].code \in {227, 229}
                 => /\ Len(o) = 1
                    /\ o[i].code = (IF ses[s].cur.cmd = "PASV" THEN 227 ELSE 229)
                    /\ d # 0
                    /\ dcs[d].fncChan
                    /\ dcs[d].port = o[i].port
            /\ (/\ ses[s].cur.cmd \in {"PASV", "EPSV"}
                /\ ses[s].cur.ran
                /\ ses[s].pc # "open"
                /\ d # 0
                /\ ~ dcs[d].fncChan)
               => (Len(o) = 1 /\ o[1].code = 550)

\* C8 happens: the bind of an EPSV's channel failed and the reply was 550.
C8_Witness ==
    /\ ses[1].cur.cmd = "EPSV"
    /\ ses[1].pc = "loop"
    /\ ses[1].lastDataChanneler # 0
    /\ ~ dcs[ses[1].lastDataChanneler].fncChan
    /\ Len(ses[1].cur.out) = 1
    /\ ses[1].cur.out[1].code = 550

\* Session t holds an open passive channel: its lastDataChanneler was opened
\* and not closed.
HoldsOpenChannel(t) ==
    /\ ses[t].pc # "closed"
    /\ ses[t].lastDataChanneler # 0
    /\ dcs[ses[t].lastDataChanneler].fncChan
    /\ NotClosed(ses[t].lastDataChanneler)

\* Session s, authenticated and with no channel of its own left open, reads a
\* command in this step.
FreshCommand(s) ==
    /\ ses[s].pc = "loop"
    /\ ses[s].authenticated
    /\ ses[s].lastDataChanneler = 0
    /\ \A d \in Chans : dcs[d].owner = s => ~ NotClosed(d)
    /\ ses'[s] # ses[s]
    /\ ses'[s].pc # "closed"

\* The ports no channel that is not closed holds.
Unheld == {p \in DOMAIN cAssigned : \A d \in Chans : NotClosed(d) => dcs[d].port # p}

\* C10: with a pool of N ports and N sessions each holding an open passive
\* channel, a PASV of one more session is answered 550 Could not allocate
\* passive port; and when a holding session was closed, so that the port it
\* held is the only one no channel holds, the next PASV of another session
\* gets exactly that port.
C10_PortRecycling ==
    [][\A s \in Sessions :
          (FreshCommand(s) /\ ses'[s].cur.cmd = "PASV")
          => /\ Cardinality({t \in Sessions \ {s} : HoldsOpenChannel(t)})
                   >= Cardinality(DOMAIN cAssigned)
                => /\ ses'[s].pc = "loop"
                   /\ ses'[s].cur.out = <<Reply(550, "Could not allocate passive port")>>
             /\ \A t \in Sessions \ {s} : \A p \in DOMAIN cAssigned :
                   (/\ ses[t].pc = "closed"
                    /\ ses[t].lastDataChanneler # 0
                    /\ dcs[ses[t].lastDataChanneler].port = p
                    /\ Unheld = {p})
                   => /\ ses'[s].pc = "open"
                      /\ dcs'[ses'[s].lastDataChanneler].port = p]_vars

\* C11: after a PASS the authenticator rejects, whatever the session was
\* before, the identity is (empty username, not authenticated); a session
\* becomes authenticated only by a PASS answered 230, and until then every
\* command that needs authentication is answered 530 alone.
C11_RejectedPassClearsIdentity ==
    [][\A s \in Sessions :
          /\ (/\ ses'[s].cur.cmd = "PASS"
              /\ ses'[s].cur.out = <<Reply(530, "Password Rejected")>>)
             => (~ ses'[s].authenticated /\ ses'[s].username = "")
          /\ (~ ses[s].authenticated /\ ses'[s].authenticated)
             => (/\ ses'[s].cur.cmd = "PASS"
                 /\ ses'[s].cur.out = <<Reply(230, "logged in")>>)
          /\ (/\ ~ ses'[s].authenticated
              /\ ses'[s].cur.cmd \in Dispatched \ AuthExempt)
             => ses'[s].cur.out = <<Reply(530, "Please login with USER and PASS.")>>]_vars

\* C11 happens: a session that had logged in and opened a data channel was
\* rejected by a later PASS, and its next PWD was answered 530.
C11_Witness ==
    /\ ses[1].lastDataChanneler # 0
    /\ ~ ses[1].authenticated
    /\ ses[1].username = ""
    /\ ses[1].cur.cmd = "PWD"
    /\ Len(ses[1].cur.out) = 1
    /\ ses[1].cur.out[1].code = 530

\* The reply code of the handlers that only answer.
NormalCode(c) ==
    CASE c = "SYST" -> 215
      [] c = "FEAT" -> 211
      [] c = "QUIT" -> 221
      [] c = "NOOP" -> 200

\* C12: SYST, FEAT, QUIT and NOOP run their handler and give their normal
\* reply (215, 211, 221, 200) whether or not the session is authenticated;
\* none of them is answered 530.
C12_OpenCommands ==
    \A s \in Sessions :
        ses[s].cur.cmd \in {"SYST", "FEAT", "QUIT", "NOOP"}
        => /\ ses[s].cur.ran
           /\ Len(ses[s].cur.out) = 1
           /\ ses[s].cur.out[1].code = NormalCode(ses[s].cur.cmd)

\* The number a decimal argument denotes.
DecimalValue(arg) == IF arg = "5" THEN 5 ELSE 0

\* C13: an authenticated REST n with a decimal n, read while a data channel is
\* open, is answered 350 and stores n as the pending offset, and a RETR read
\* right after it opens the file at offset n.
C13_RestStoresOffset ==
    [][\A s \in Sessions :
          /\ (/\ ses'[s].cur.cmd = "REST"
              /\ ses'[s].cur.arg = "5"
              /\ ses'[s].authenticated
              /\ ses'[s].cur.dc0 = "open")
             => /\ ses'[s].cur.out = <<Reply(350, "start position moved successfully")>>
                /\ ses'[s].lastREST = DecimalValue(ses'[s].cur.arg)
          /\ (/\ ses[s].cur.cmd = "REST"
              /\ ses[s].cur.arg = "5"
              /\ ses[s].pc = "loop"
              /\ ses'[s].cur.cmd = "RETR"
              /\ ses'[s].pc = "sink")
             => ses'[s].sinkRest = DecimalValue(ses[s].cur.arg)]_vars

\* C14: in the order REST 5, PASV, RETR on an authenticated session, REST is
\* answered 350 without a data channel being open, the offset it stored
\* survives the PASV or EPSV that follows, and the RETR after that starts at
\* that offset.
C14_RestBeforePasv ==
    [][\A s \in Sessions :
          /\ (/\ ses'[s].cur.cmd = "REST"
              /\ ses'[s].cur.arg = "5"
              /\ ses'[s].authenticated
              /\ ses'[s].cur.dc0 = "nil")
             => /\ ses'[s].cur.out = <<Reply(350, "start position moved successfully")>>
                /\ ses'[s].lastREST = DecimalValue(ses'[s].cur.arg)
          /\ (/\ ses[s].pc = "loop"
              /\ ses[s].authenticated
              /\ ses'[s] # ses[s]
              /\ ses'[s].pc \in {"loop", "open"}
              /\ ses'[s].cur.cmd \in {"PASV", "EPSV"})
             => ses'[s].lastREST = ses[s].lastREST
          /\ (/\ ses[s].pc = "loop"
              /\ ses'[s].cur.cmd = "RETR"
              /\ ses'[s].pc = "sink")
             => ses'[s].sinkRest = ses[s].lastREST]_vars

\* C15: a stored offset is used by at most one RETR: a RETR whose handler runs
\* leaves the pending offset 0, also when it then fails; only REST makes the
\* offset non-zero; and the offset a RETR reads from is the pending one, so a
\* RETR with no REST since the last RETR reads from 0.
C15_OffsetUsedOnce ==
    [][\A s \in Sessions :
          /\ (ses'[s].cur.cmd = "RETR" /\ ses'[s].cur.ran) => ses'[s].lastREST = 0
          /\ (ses[s].lastREST = 0 /\ ses'[s].lastREST # 0) => ses'[s].cur.cmd = "REST"
          /\ (/\ ses[s].pc = "loop"
              /\ ses'[s].cur.cmd = "RETR"
              /\ ses'[s].pc = "sink"
              /\ ses[s].lastREST = 0)
             => ses'[s].sinkRest = 0]_vars

\* C15 happens: a RETR took a stored offset with it and left none behind.
C15_Witness ==
    \E d \in Chans :
        /\ dcs[d].fn = "RETR"
        /\ dcs[d].rest # 0
        /\ ses[dcs[d].owner].lastREST = 0

\* The replies of one command are complete and well-formed: one final reply
\* (2xx-5xx), preceded by a single 1xx when the command is a transfer that got
\* as far as its 1xx, the final reply of a successful transfer being a 2xx.
WellFormedReplies(o, isTransfer) ==
    \/ Len(o) = 1 /\ o[1].code \in 200..599
    \/ /\ isTransfer
       /\ Len(o) = 2
       /\ o[1].code \in 100..199
       /\ o[2].code \in 200..599

\* C16: every command whose handler ran and returned has produced exactly one
\* 1xx followed by exactly one final reply (a transfer), or exactly one reply
\* in the range 2xx-5xx; no handler produces no reply, or more than that.
C16_ReplyCount ==
    /\ \A s \in Sessions :
          (/\ ~ crashed
           /\ ses[s].cur.ran
           /\ ses[s].pc \in {"loop", "closed"}
           /\ ses[s].cur.handed = 0)
          => WellFormedReplies(ses[s].cur.out, FALSE)
    /\ \A d \in Chans :
          (dcs[d].fn # "" /\ dcs[d].pc = "defer")
          => WellFormedReplies(dcs[d].out, TRUE)

\* C17: no command line makes a handler abort the session or the process: for
\* every command and every argument count the handler returns and the loop
\* goes on to read the next command; only a failure of the control channel or
\* QUIT ends the loop.
C17_HandlersNeverCrash ==
    /\ ~ crashed
    /\ \A s \in Sessions :
          ses[s].pc = "closed"
          => (ses[s].cur.cmd = "QUIT" \/ ~ ses[s].conn)

\* C18: a command that needs an argument, sent without it to a session that
\* passes the command's checks, is answered by a single 501 and leaves the
\* identity and the data channel of the session as they were.
C18_MissingArgument ==
    [][\A s \in Sessions :
          (/\ ses[s].pc = "loop"
           /\ ses'[s].conn
           /\ ses'[s].cur.cmd \in {"USER", "PASS", "TYPE", "CWD", "SIZE", "RETR",
                                   "STOR", "MKD", "RMD", "DELE", "REST", "AUTH",
                                   "PROT"}
           /\ ses'[s].cur.arg = ""
           /\ ses'[s].cur.ran)
          => /\ ~ crashed'
             /\ Len(ses'[s].cur.out) = 1
             /\ ses'[s].cur.out[1].code = 501
             /\ ses'[s].username = ses[s].username
             /\ ses'[s].authenticated = ses[s].authenticated
             /\ ses'[s].lastDataChanneler = ses[s].lastDataChanneler]_vars

\* The ports of the range whose slot is free and that nobody listens on.
FreeAndBindable ==
    {p \in DOMAIN cAssigned : ~ cAssigned[p] /\ p \notin bound}

\* The call of AssignPort by caller k returns in this step.
AssignReturns(k) == callers[k].pc = "assign" /\ callers'[k].pc # "assign"

InUse(k) == callers[k].pc \in {"holding", "release"}

\* C20: under every interleaving of concurrent AssignPort and ReleasePort
\* calls, a port AssignPort returned is not returned again before it was
\* released, and every port returned lies in [min, max).
C20_NoPortReturnedTwice ==
    /\ \A j, k \in Callers :
          (j # k /\ InUse(j) /\ InUse(k)) => callers[j].port # callers[k].port
    /\ \A k \in Callers :
          InUse(k) => /\ callers[k].port \in DOMAIN cAssigned
                      /\ callers[k].port >= minPASVPort
                      /\ callers[k].port < minPASVPort + PoolPorts
                      /\ cAssigned[callers[k].port]

\* C20 happens: two callers hold the two ports of the range while the call of
\* a third and the release of one of the two wait in the serializer.
C20_Witness ==
    /\ callers[1].pc = "release"
    /\ callers[2].pc = "holding"
    /\ callers[3].pc = "assign"
    /\ callers[1].port # callers[2].port

\* C21: clean is idempotent: cleaning a cleaned path gives the same path.
C21_CleanIdempotent ==
    (pth.by # "" /\ pth.twice # <<>>) => pth.twice = pth.once

\* C22: the segments splitAndClearPath returns hold no "..", so that no path
\* CWD, SIZE or RETR give to the file provider holds one, the bare ".."
\* excepted.
C22_NoDotDot ==
    pth.by # ""
    => /\ \A i \in 1..Len(pth.toks) : pth.toks[i] # ".."
       /\ pth.s # <<"..">> => \A i \in 1..Len(pth.once) : pth.once[i] # ".."

\* Resolution of ".." against a stack, from left to right: an empty segment
\* is dropped, ".." removes the segment on top, any other segment is pushed.
RECURSIVE StackResolve(_, _)
StackResolve(s, st) ==
    IF s = <<>> THEN st
    ELSE LET h == Head(s)
         IN  StackResolve(Tail(s),
                 IF h = "" THEN st
                 ELSE IF h = ".."
                      THEN (IF st = <<>> THEN st ELSE SubSeq(st, 1, Len(st) - 1))
                      ELSE Append(st, h))

\* The segments left, joined, with the leading '/' of s, "/" when none is left.
Resolved(s) ==
    LET p == StackResolve(s, <<>>)
    IN  IF p = <<>> THEN <<"", "">>
        ELSE IF BeginsWithSlash(s) THEN <<"">> \o p ELSE p

\* Every ".." of s comes right after an ordinary segment (empty segments
\* apart), so that no two ".." are adjacent.
WellNested(s) ==
    LET toks == NonEmptyItems(s)
    IN  \A i \in 1..Len(toks) :
            toks[i] = ".." => (i > 1 /\ toks[i - 1] # "..")

\* C23: on a path whose every ".." comes right after an ordinary segment,
\* clearPath returns what the resolution against a stack gives: empty segments
\* dropped, each name/.. pair removed, the leading '/' kept, "/" when nothing
\* is left; splitAndClearPath returns the stack.
C23_CleanIsStackResolution ==
    (pth.by # "" /\ WellNested(pth.s))
    => /\ pth.toks = StackResolve(pth.s, <<>>)
       /\ pth.once = Resolved(pth.s)

\* C23 happens: CWD /a/../b/.. was cleaned to /.
C23_Witness ==
    /\ pth.by = "CWD"
    /\ pth.s = <<"", "a", "..", "b", "..">>
    /\ pth.once = <<"", "">>

\* C24: the control stream becomes secure exactly by an AUTH TLS sent to a
\* server with a certificate on a stream that is still plain, whose 234 is
\* written on the plain stream; every other AUTH is answered by one 5xx and
\* leaves the stream as it was; a secure stream never becomes plain again.
C24_AuthUpgrade ==
    [][\A s \in Sessions :
          /\ (ses[s].secure /\ ses'[s].conn) => ses'[s].secure
          /\ (~ ses[s].secure /\ ses'[s].secure)
             => /\ cert
                /\ ses'[s].cur.cmd = "AUTH"
                /\ ses'[s].cur.arg = "TLS"
                /\ Len(ses'[s].cur.out) = 1
                /\ ses'[s].cur.out[1].code = 234
                /\ ~ ses'[s].cur.tls
          /\ (/\ ses[s].pc = "loop"
              /\ ses'[s].cur # ses[s].cur
              /\ ses'[s].cur.cmd = "AUTH"
              /\ ses'[s].cur.ran)
             => /\ Len(ses'[s].cur.out) = 1
                /\ IF cert /\ ~ ses[s].secure /\ ses'[s].cur.arg = "TLS"
                   THEN ses'[s].secure /\ ses'[s].cur.out[1].code = 234
                   ELSE /\ ses'[s].cur.out[1].code \in 500..599
                        /\ ses'[s].secure = ses[s].secure]_vars

\* C24 happens: a second AUTH TLS on the upgraded stream was answered 502.
C24_Witness ==
    /\ cert
    /\ ses[1].secure
    /\ ses[1].cur.cmd = "AUTH"
    /\ ses[1].cur.arg = "TLS"
    /\ Len(ses[1].cur.out) = 1
    /\ ses[1].cur.out[1].code = 502
    /\ ses[1].cur.tls

\* C25: the data-channel-encryption flag of a session changes only by a PROT
\* answered 200, to on by PROT P and to off by PROT C; the channel the session
\* holds, whether it was there when PROT ran or was created later by PASV or
\* EPSV, carries the flag; and the task that takes a transfer routine wraps
\* the data connection in TLS exactly when the flag is on.
C25_ProtectedTransfers ==
    [][\A s \in Sessions :
          /\ ses'[s].dataChannelEncryption # ses[s].dataChannelEncryption
             => /\ ses'[s].cur.cmd = "PROT"
                /\ Len(ses'[s].cur.out) = 1
                /\ ses'[s].cur.out[1].code = 200
          /\ (/\ ses[s].pc = "loop"
              /\ ses'[s].cur # ses[s].cur
              /\ ses'[s].cur.cmd = "PROT"
              /\ Len(ses'[s].cur.out) = 1
              /\ ses'[s].cur.out[1].code = 200)
             => /\ ses'[s].cur.arg \in {"P", "C"}
                /\ ses'[s].dataChannelEncryption <=> ses'[s].cur.arg = "P"
          /\ ses'[s].lastDataChanneler # 0
             => (dcs'[ses'[s].lastDataChanneler].encrypted
                   <=> ses'[s].dataChannelEncryption)
          /\ \A d \in Chans :
                (dcs[d].owner = s /\ dcs[d].fn = "" /\ dcs'[d].fn # "")
                => /\ dcs'[d].pc = "run"
                   /\ dcs'[d].secureConnection <=> ses[s].dataChannelEncryption]_vars

\* C25 happens: a RETR moves its data over a TLS-wrapped connection.
C25_Witness ==
    \E d \in Chans :
        /\ dcs[d].fn = "RETR"
        /\ dcs[d].secureConnection
        /\ dcs[d].bytes > 0
        /\ ses[dcs[d].owner].dataChannelEncryption

C27_IdleSessionDropped ==
    \A s \in Sessions :
        (ses[s].conn /\ now - ses[s].lastReceivedCommand > connectionTimeout)
        ~> ~ ses[s].conn

\* C28: the slot of a port is free exactly when no data channel that is
\* created and not closed holds the port, and the count of free slots never
\* exceeds the size of the range.
C28_FreeIffUnheld ==
    /\ \A p \in DOMAIN cAssigned :
          ~ cAssigned[p] <=> ~ \E d \in Chans : NotClosed(d) /\ dcs[d].port = p
    /\ free <= Cardinality(DOMAIN cAssigned)

\* C29: Close on a data channel is idempotent: in a step in which Close is
\* called on a channel that was closed before, the slots and the count of
\* free ports stay as they are, so that a channel gives its port back once.
C29_CloseIdempotent ==
    [][\A d \in Chans :
          (dcs[d].closes > 0 /\ dcs'[d].closes > dcs[d].closes)
          => (free' = free /\ cAssigned' = cAssigned)]_vars

\* C30: closed is a terminal state that can be observed: once Close has run
\* on a channel, its Port() is 0 and IsClosed() is true, from then on.
C30_ClosedObservable ==
    \A d \in Chans :
        dcs[d].closes > 0 => (dcs[d].port = 0 /\ IsClosed(dcs[d]))

\* C31: each data channel has one background task, started by Open, which
\* accepts at most one connection and then leaves its select by exactly one of
\* two exits: it receives one routine from Sink and runs it, or it takes the
\* kill signal and runs none. A channel that has received a routine keeps it
\* and never returns to Accept or to the select, so no routine is run twice and
\* no channel runs a second one.
C31_OneTaskOneRoutine ==
    [][\A d \in Chans :
         /\ (dcs'[d].pc = "accept" /\ dcs[d].pc # "accept") => dcs[d].pc = "new"
         /\ (dcs'[d].connection /\ ~ dcs[d].connection)
            => (dcs[d].pc = "accept" /\ dcs'[d].pc = "select")
         /\ (dcs'[d].pc = "select" /\ dcs[d].pc # "select") => dcs[d].pc = "accept"
         /\ (dcs[d].pc = "select" /\ dcs'[d].pc # "select")
            => \/ /\ dcs'[d].pc = "run"
                  /\ dcs[d].fn = ""
                  /\ dcs'[d].fn \in TransferCmds
                  /\ dcs'[d].killChan = dcs[d].killChan
               \/ /\ dcs'[d].pc = "defer"
                  /\ dcs'[d].fn = ""
                  /\ dcs'[d].killChan = dcs[d].killChan - 1
         /\ (dcs'[d].pc = "run" /\ dcs[d].pc # "run") => dcs[d].pc = "select"
         /\ dcs[d].fn # ""
            => /\ dcs'[d].fn = dcs[d].fn
               /\ dcs'[d].pc \in {"run", "data", "defer", "done"}]_vars

\* C31 happens: a task accepted its connection, received the routine of a LIST
\* from Sink, ran it to its end and is over.
C31_Witness ==
    \E d \in Chans :
        /\ dcs[d].pc = "done"
        /\ dcs[d].fn = "LIST"
        /\ dcs[d].closes >= 2

\* C32: when the Accept of a channel's task has failed, a transfer command the
\* session issues afterwards completes: its handler is never left waiting in
\* Sink on a channel that was opened and whose task has already left (it is in
\* its deferred Close, or over) without having received a routine.
C32_AcceptFailureObserved ==
    \A s \in Sessions :
        (ses[s].pc = "sink" /\ dcs[ses[s].dc].fncChan)
        => dcs[ses[s].dc].pc \notin {"defer", "done"}

\* C33: when an authenticated session that holds a data channel processes PASV
\* or EPSV, Close is called on that channel, its listener is gone and its port
\* is back in the pool before the new port is assigned: alone on a pool of one
\* port the session is not answered 550 Could not allocate passive port, and
\* its new channel has the port of the old one (with more ports: that one or a
\* lower one).
C33_RepeatedPassive ==
    [][\A s \in Sessions :
         (/\ ses[s].pc = "loop"
          /\ ses'[s].cur # ses[s].cur
          /\ ses'[s].cur.cmd \in {"PASV", "EPSV"}
          /\ ses[s].authenticated
          /\ ses[s].lastDataChanneler # 0)
         => LET old == ses[s].lastDataChanneler
                new == ses'[s].lastDataChanneler
            IN  /\ ses'[s].cur.out = <<>>
                /\ ses'[s].pc = "open"
                /\ dcs'[old].closes = dcs[old].closes + 1
                /\ ~ dcs'[old].listener
                /\ new \notin {0, old}
                /\ dcs'[new].port <= dcs[old].port
                /\ cAssigned'[dcs'[new].port]]_vars

\* C33 happens: the session went through PASV or EPSV three times in a row,
\* each time holding the channel of the time before.
C33_Witness ==
    /\ ses[1].cur.cmd \in {"PASV", "EPSV"}
    /\ ses[1].pc = "open"
    /\ ses[1].lastDataChanneler = 3
    /\ dcs[1].closes > 0 /\ dcs[1].fn = ""
    /\ dcs[2].closes > 0 /\ dcs[2].fn = ""
    /\ dcs[3].port = dcs[1].port

\* C34: LIST <path> and NLST <path> leave the current directory of the session
\* as it was before the command, in every outcome: after success, after a
\* failed ChangeDirectory, and after a List that fails once the temporary
\* change of directory has succeeded.
C34_ListRestoresDirectory ==
    [][\A s \in Sessions :
         (/\ ses[s].pc = "loop"
          /\ ses'[s].cur # ses[s].cur
          /\ ses'[s].cur.cmd \in {"LIST", "NLST"}
          /\ ses'[s].cur.arg # "")
         => fps'[s].dir = fps[s].dir]_vars

\* C35: while the identity is authenticated its username is the one the
\* authenticator accepted: the stored username of a session that is and stays
\* authenticated changes only in a step that is a new PASS answered 230.
C35_AuthenticatedUsernameFixed ==
    [][\A s \in Sessions :
         (/\ ses[s].authenticated
          /\ ses'[s].authenticated
          /\ ses'[s].username # ses[s].username)
         => /\ ses'[s].cur # ses[s].cur
            /\ ses'[s].cur.cmd = "PASS"
            /\ ses'[s].cur.out = <<Reply(230, "logged in")>>]_vars

\* C36: on a session that is not authenticated, a PASS gives the authenticator
\* the argument of the most recent USER only if no other command of the
\* dispatch table was processed in between: when a command other than USER and
\* PASS (NOOP, SYST, AUTH, a command answered 530, ...) was processed after
\* that USER, the authenticator receives the empty username.
C36_UsernameOnlyRightAfterUser ==
    \A s \in Sessions :
        login[s].asked
        => /\ login[s].between => login[s].given = ""
           /\ (login[s].user # "" /\ login[s].given = login[s].user)
              => ~ login[s].between

\* C36 happens: USER u, then a command other than USER and PASS, then a PASS
\* that gave the authenticator the empty username and was accepted.
C36_Witness ==
    /\ login[1].asked
    /\ login[1].user = "u"
    /\ login[1].between
    /\ login[1].given = ""
    /\ ses[1].cur.cmd = "PASS"
    /\ ses[1].authenticated

\* C37: in every reachable state a data channel whose encrypted flag is true
\* belongs to a session whose control stream is secure, on a server that has
\* a certificate.
C37_EncryptedOnSecureSession ==
    \A d \in Chans :
        dcs[d].encrypted => (cert /\ ses[dcs[d].owner].secure)

\* C37, amended: a data channel whose encrypted flag is true, and a session
\* whose data channel encryption is on, belong to a server that has a
\* certificate, and the control stream of the session is secure for as long as
\* it is open (Session.Close clears it, the channels the session created keep
\* their flag); so the task of an encrypted channel never finds dc.cert nil.
C37_EncryptedHasCertificate ==
    /\ \A d \in Chans :
          dcs[d].encrypted
          => /\ cert
             /\ ses[dcs[d].owner].conn => ses[dcs[d].owner].secure
    /\ \A s \in Sessions :
          ses[s].dataChannelEncryption
          => /\ cert
             /\ ses[s].conn => ses[s].secure

\* C37 happens: the task of an encrypted channel received the routine of a
\* transfer and wrapped the connection in TLS, and the session then closed.
C37_Witness ==
    \E d \in Chans :
        /\ dcs[d].encrypted
        /\ dcs[d].secureConnection
        /\ dcs[d].pc = "run"
        /\ dcs[d].fn \in TransferCmds
        /\ ses[dcs[d].owner].pc = "closed"

\* C38: every port assigned to a data channel is released in the end (Close
\* is called on the channel), when the goroutines of the server are scheduled
\* fairly and whatever the client does, also when it never dials the port
\* after a transfer command and drops the control connection.
C38_PortsEventuallyReleased ==
    \A d \in Chans :
        (dcs[d].pc # "none" /\ dcs[d].closes = 0) ~> (dcs[d].closes > 0)

\* C39: under every interleaving of Close, called by the session's goroutine,
\* with the task of the channel, the task never uses the listener field after
\* Close has cleared it: neither the Accept that follows its nil check nor the
\* listener.Close() that follows a successful Accept is called on nil.
C39_NoUseOfClearedListener ==
    \A d \in Chans : dcs[d].pc # "panic"

\* C40: after a PASV or EPSV answered 550, whether no port could be assigned
\* or the listener could not be bound, the session holds no usable channel: a
\* LIST, NLST, RETR or STOR read while the session holds nothing but a channel
\* whose Open failed is answered 425 and its handler does not run, so no
\* handler is in Sink on a channel whose task was never started.
C40_FailedPassiveLeavesNoChannel ==
    \A s \in Sessions :
        /\ (/\ ses[s].cur.cmd \in TransferCmds
            /\ ses[s].authenticated
            /\ ses[s].cur.dc0 = "unopened")
           => /\ ~ ses[s].cur.ran
              /\ ses[s].cur.out = <<Reply(425, "Use PASV or EPSV first")>>
        /\ ses[s].pc = "sink" => dcs[ses[s].dc].fncChan

====
